---- MODULE Spec2Model ----
(***************************************************************************)
(* kayako_duplicator.py: one raw email is read from stdin, one modified    *)
(* copy per destination is produced by make_copy and handed to sendmail.   *)
(*                                                                         *)
(* Text is modelled as a sequence of tokens (a token is one character or   *)
(* one literal chunk of a format string), so that concatenation, trimming  *)
(* and splitting are computed.  A raw message is a sequence of lines.      *)
(***************************************************************************)
EXTENDS Integers, Sequences, FiniteSets, TLC

(***************************************************************************)
(* Bounds of the model.                                                    *)
(***************************************************************************)
MaxEntries == 2     \* comma-separated entries of sys.argv[1]
MaxHeaders == 2     \* header lines of a message given to copies_for

(***************************************************************************)
(* State of main().                                                        *)
(***************************************************************************)
VARIABLES
    pc,               \* position in main()
    destinations,     \* the parsed destination list
    raw,              \* the bytes read from stdin
    envelope_sender,  \* parseaddr(From)[1] of the original
    errors,           \* the list of "dest: cause" strings
    idx,              \* position of the for loop in destinations
    proc,             \* the sendmail process being waited for, if any
    abandoned,        \* sendmail processes started and never waited for
    stderr,           \* what was printed to sys.stderr, one entry per print
    exit_code,        \* <<>> while running, <<status>> once exited
    attempts,         \* history: one record per started loop iteration
    copies            \* history: one record per copy make_copy returned

vars == <<pc, destinations, raw, envelope_sender, errors, idx, proc,
          abandoned, stderr, exit_code, attempts, copies>>

(***************************************************************************)
(* Sequence helpers.                                                       *)
(***************************************************************************)
RECURSIVE Flat(_)
Flat(ss) == IF ss = <<>> THEN <<>> ELSE Head(ss) \o Flat(Tail(ss))

SeqsUpTo(S, n) == UNION {[1..k -> S] : k \in 0..n}

(***************************************************************************)
(* Header names are compared case-insensitively (name.lower()).            *)
(***************************************************************************)
Lower(n) ==
    CASE n = "To" -> "to"
      [] n = "TO" -> "to"
      [] n = "Subject" -> "subject"
      [] n = "Message-ID" -> "message-id"
      [] n = "Message-Id" -> "message-id"
      [] n = "X-Kayako-Dup" -> "x-kayako-dup"
      [] n = "In-Reply-To" -> "in-reply-to"
      [] n = "References" -> "references"
      [] n = "From" -> "from"
      [] n = "Date" -> "date"
      [] n = "Received" -> "received"
      [] n = "Content-Type" -> "content-type"
      [] OTHER -> n

(***************************************************************************)
(* Lines of a raw message.                                                 *)
(***************************************************************************)
HdrLine(n, v) == [k |-> "hdr", n |-> n, v |-> v]
BlankLine == [k |-> "blank", n |-> "", v |-> <<>>]
TextLine(v) == [k |-> "text", n |-> "", v |-> v]
BoundaryLine == [k |-> "boundary", n |-> "", v |-> <<>>]
CloseLine == [k |-> "close", n |-> "", v |-> <<>>]

NL == "\\n"              \* a line break inside a value
HiByte == "\\xe9"        \* a raw byte >= 0x80 in a header value
Repl == "\\ufffd"        \* U+FFFD, what str() of a Header shows for it
MultipartType == <<"multipart/mixed; boundary=b">>

(***************************************************************************)
(* email.message_from_bytes: the header block is the leading run of header *)
(* lines; one blank separator line is dropped; the rest is the body.  With *)
(* a multipart Content-Type and a boundary line in the body, the body is   *)
(* split into preamble, parts and epilogue, each part parsed as a leaf.    *)
(***************************************************************************)
RECURSIVE HdrPrefixLen(_)
HdrPrefixLen(lines) ==
    IF lines = <<>> \/ Head(lines).k # "hdr" THEN 0
    ELSE 1 + HdrPrefixLen(Tail(lines))

HeaderBlock(lines) ==
    [i \in 1..HdrPrefixLen(lines) |-> <<lines[i].n, lines[i].v>>]

BodyLines(lines) ==
    LET rest == SubSeq(lines, HdrPrefixLen(lines) + 1, Len(lines))
    IN  IF rest # <<>> /\ Head(rest).k = "blank" THEN Tail(rest) ELSE rest

RECURSIVE IdxFirst(_, _)
IdxFirst(lines, kind) ==
    IF lines = <<>> THEN 0
    ELSE IF Head(lines).k = kind THEN 1
    ELSE LET r == IdxFirst(Tail(lines), kind) IN IF r = 0 THEN 0 ELSE r + 1

RECURSIVE SplitOnBoundary(_)
SplitOnBoundary(lines) ==
    LET i == IdxFirst(lines, "boundary")
    IN  IF i = 0 THEN <<lines>>
        ELSE <<SubSeq(lines, 1, i - 1)>>
             \o SplitOnBoundary(SubSeq(lines, i + 1, Len(lines)))

ParsePart(lines) ==
    [headers |-> HeaderBlock(lines), payload |-> BodyLines(lines)]

\* Message.get(name, failobj): the first header of that name, compared
\* case-insensitively.  A value holding raw non-ASCII bytes comes back as an
\* email.header.Header object (hdr = TRUE), any other as a str.
RECURSIVE FirstIdx(_, _)
FirstIdx(headers, name) ==
    IF headers = <<>> THEN 0
    ELSE IF Lower(Head(headers)[1]) = Lower(name) THEN 1
    ELSE LET r == FirstIdx(Tail(headers), name) IN IF r = 0 THEN 0 ELSE r + 1

HasHiByte(v) == \E i \in 1..Len(v) : v[i] = HiByte

Get(msg, name, failobj) ==
    LET i == FirstIdx(msg.headers, name)
    IN  IF i = 0 THEN [hdr |-> FALSE, v |-> failobj]
        ELSE [hdr |-> HasHiByte(msg.headers[i][2]), v |-> msg.headers[i][2]]

\* str(obj), as an f-string applies it: a Header object decodes each raw
\* non-ASCII byte to U+FFFD.
Str(obj) ==
    IF obj.hdr
    THEN [i \in 1..Len(obj.v) |-> IF obj.v[i] = HiByte THEN Repl ELSE obj.v[i]]
    ELSE obj.v

message_from_bytes(data) ==
    LET headers == HeaderBlock(data)
        body == BodyLines(data)
        ct == Get([headers |-> headers], "Content-Type", <<>>).v
        b == IdxFirst(body, "boundary")
        after == SubSeq(body, b + 1, Len(body))
        c == IdxFirst(after, "close")
        region == IF c = 0 THEN after ELSE SubSeq(after, 1, c - 1)
        segs == SplitOnBoundary(region)
    IN  IF ct = MultipartType /\ b > 0
        THEN [headers |-> headers, multipart |-> TRUE, payload |-> <<>>,
              parts |-> [i \in 1..Len(segs) |-> ParsePart(segs[i])],
              preamble |-> SubSeq(body, 1, b - 1),
              epilogue |-> IF c = 0 THEN <<>>
                           ELSE SubSeq(after, c + 1, Len(after))]
        ELSE [headers |-> headers, multipart |-> FALSE, payload |-> body,
              parts |-> <<>>, preamble |-> <<>>, epilogue |-> <<>>]

\* del msg[name]: every header of that name goes, the others keep their order.
DelHeader(msg, name) ==
    [msg EXCEPT !.headers =
        SelectSeq(msg.headers, LAMBDA h : Lower(h[1]) # Lower(name))]

\* msg[name] = value: appended after the existing headers.
SetHeader(msg, name, value) ==
    [msg EXCEPT !.headers = Append(msg.headers, <<name, value>>)]

\* msg.as_bytes() raises HeaderParseError when a header value holds a line
\* break followed by what reads as a header name ("\n" non-blanks ":").
EmbeddedHeader(v) ==
    \E i, j \in 1..Len(v) :
        /\ i + 1 < j
        /\ v[i] = NL
        /\ v[j] = ":"
        /\ \A k \in (i + 1)..(j - 1) : v[k] \notin {" ", NL, ":"}

CanSerialize(msg) ==
    \A i \in 1..Len(msg.headers) : ~EmbeddedHeader(msg.headers[i][2])

\* msg.as_bytes(): header lines, the separator, the body; a multipart body is
\* regenerated from its parts.
FlattenPart(part) ==
    [i \in 1..Len(part.headers) |->
        HdrLine(part.headers[i][1], part.headers[i][2])]
    \o <<BlankLine>> \o part.payload

as_bytes(msg) ==
    [i \in 1..Len(msg.headers) |->
        HdrLine(msg.headers[i][1], msg.headers[i][2])]
    \o <<BlankLine>>
    \o (IF msg.multipart
        THEN msg.preamble
             \o Flat([i \in 1..Len(msg.parts) |->
                        <<BoundaryLine>> \o FlattenPart(msg.parts[i])])
             \o <<CloseLine>> \o msg.epilogue
        ELSE msg.payload)

(***************************************************************************)
(* generate_message_id and random_tag.  The clock, the uuid4 and the       *)
(* random choices are inputs; the sets below are the values drawn.         *)
(***************************************************************************)
UidLen == 12
TagLength == 4

TimeSample == {1793766148, 1793766149}
UuidSample == {[i \in 1..32 |-> "0"], [i \in 1..32 |-> "f"]}
Fqdn == <<"localhost">>
AlnumSample == {"a", "7"}

\* mutant: the timestamp left out of the identifier
generate_message_id_no_ts(ts, uuid4hex) ==
    <<"<">> \o SubSeq(uuid4hex, 1, UidLen) \o <<"@">> \o Fqdn \o <<">">>

generate_message_id(ts, uuid4hex) ==
    LET uid == SubSeq(uuid4hex, 1, UidLen)
    IN  <<"<">> \o <<ToString(ts)>> \o <<".">> \o uid \o <<"@">> \o Fqdn
        \o <<">">>

\* the values random_tag(length) can return
random_tag(length) == [1..length -> AlnumSample]

\* mutant: the destination added without deleting the To headers present
ReplaceToKeepOld(msg, destination) == SetHeader(msg, "To", destination)

\* mutant: the Subject rewritten with empty brackets
TagSubjectNoTag(msg, tag) ==
    SetHeader(DelHeader(msg, "Subject"), "Subject",
              Str(Get(msg, "Subject", <<>>)) \o <<" [">> \o <<"]">>)

\* mutant: Date stripped along with the threading headers
StripThreadingAndDate(msg) ==
    DelHeader(DelHeader(DelHeader(msg, "In-Reply-To"), "References"), "Date")

\* make_copy, one operator per commented step of the function body
ReplaceTo(msg, destination) ==
    SetHeader(DelHeader(msg, "To"), "To", destination)

ReplaceMessageId(msg, ts, uuid4hex) ==
    SetHeader(DelHeader(msg, "Message-ID"), "Message-ID",
              generate_message_id(ts, uuid4hex))

TagSubject(msg, tag) ==
    LET subject == Get(msg, "Subject", <<>>)
    IN  SetHeader(DelHeader(msg, "Subject"), "Subject",
                  Str(subject) \o <<" [">> \o tag \o <<"]">>)

AddSentinel(msg) ==
    SetHeader(DelHeader(msg, "X-Kayako-Dup"), "X-Kayako-Dup", <<"1">>)

StripThreading(msg) ==
    DelHeader(DelHeader(msg, "In-Reply-To"), "References")

\* mutant: one parsed message shared by the iterations, each copy built on
\* the previous one
make_copy_shared(original_bytes, destination, ts, uuid4hex, tag) ==
    LET msg == IF copies = <<>> THEN message_from_bytes(original_bytes)
               ELSE copies[Len(copies)].msg
    IN  StripThreading(AddSentinel(TagSubject(
            ReplaceMessageId(ReplaceTo(msg, destination), ts, uuid4hex),
            tag)))

make_copy(original_bytes, destination, ts, uuid4hex, tag) ==
    StripThreading(AddSentinel(TagSubject(
        ReplaceMessageId(
            ReplaceTo(message_from_bytes(original_bytes), destination),
            ts, uuid4hex),
        tag)))

(***************************************************************************)
(* Text helpers of main(): str.strip, str.split(","), parseaddr.           *)
(***************************************************************************)
IsSpace(c) == c \in {" ", NL}

RECURSIVE LStrip(_)
LStrip(s) == IF s # <<>> /\ IsSpace(Head(s)) THEN LStrip(Tail(s)) ELSE s

RECURSIVE RStrip(_)
RStrip(s) ==
    IF s # <<>> /\ IsSpace(s[Len(s)]) THEN RStrip(SubSeq(s, 1, Len(s) - 1))
    ELSE s

Strip(s) == RStrip(LStrip(s))

RECURSIVE IdxOf(_, _)
IdxOf(s, c) ==
    IF s = <<>> THEN 0
    ELSE IF Head(s) = c THEN 1
    ELSE LET r == IdxOf(Tail(s), c) IN IF r = 0 THEN 0 ELSE r + 1

RECURSIVE Split(_, _)
Split(s, sep) ==
    LET i == IdxOf(s, sep)
    IN  IF i = 0 THEN <<s>>
        ELSE <<SubSeq(s, 1, i - 1)>> \o Split(SubSeq(s, i + 1, Len(s)), sep)

\* mutant: entries trimmed but empty ones kept
ParseDestinationsKeepEmpty(arg) ==
    LET pieces == Split(arg, ",") IN [i \in 1..Len(pieces) |-> Strip(pieces[i])]

\* [a.strip() for a in sys.argv[1].split(",") if a.strip()]
ParseDestinations(arg) ==
    LET pieces == Split(arg, ",")
        kept == SelectSeq(pieces, LAMBDA a : Strip(a) # <<>>)
    IN  [i \in 1..Len(kept) |-> Strip(kept[i])]

\* email.utils.parseaddr(value)[1] for the address forms of StdinSample
\* ("addr", "Name <addr>"): the text between the first "<" and the next ">",
\* else the first word.
AddrSpec(v) ==
    LET s == Strip(v)
        lt == IdxOf(s, "<")
        inner == SubSeq(s, lt + 1, Len(s))
        gt == IdxOf(inner, ">")
        sp == IdxOf(s, " ")
    IN  IF lt > 0
        THEN IF gt > 0 THEN SubSeq(inner, 1, gt - 1) ELSE inner
        ELSE IF sp > 0 THEN SubSeq(s, 1, sp - 1) ELSE s

(***************************************************************************)
(* Inputs of a run.                                                        *)
(***************************************************************************)
\* ",".join(entries)
RECURSIVE Join(_)
Join(entries) ==
    IF Len(entries) = 1 THEN Head(entries)
    ELSE Head(entries) \o <<",">> \o Join(Tail(entries))

\* entries of the argument: empty, blank, an address with and without blanks
\* around it, an address with a line break and a header name in it
EntrySample ==
    {<<>>, <<" ">>, <<"a">>, <<" ", "a", NL>>, <<"a", NL, "b", ":">>}

\* sys.argv[1:]: no argument, or one of up to MaxEntries entries
ArgvSample ==
    {<<>>} \cup {<<Join(es)>> : es \in SeqsUpTo(EntrySample, MaxEntries) \ {<<>>}}

\* what stdin can hold: nothing, or a message
StdinSample ==
    {<<>>,
     <<BlankLine, TextLine(<<"x">>)>>,
     <<HdrLine("From", <<"a">>), HdrLine("Subject", <<"S">>),
       HdrLine("To", <<"t">>), HdrLine("Message-ID", <<"<", "o", ">">>),
       BlankLine, TextLine(<<"x">>)>>,
     <<HdrLine("Subject", <<"S">>),
       HdrLine("From", <<"N", " ", "<", "b", ">">>),
       HdrLine("from", <<"a">>), HdrLine("In-Reply-To", <<"<", "t", ">">>)>>,
     <<HdrLine("From", <<HiByte, " ", "<", "a", ">">>), BlankLine,
       TextLine(<<"x">>)>>}

\* exit statuses of /usr/sbin/sendmail and what it wrote to its stderr
ExitSample == {0, 1}
DiagSample == {<<" ", "x", " ">>}

\* the tags drawn in a run: the values of random_tag whose characters are
\* all alike
TagSample ==
    {t \in random_tag(TagLength) : \A i \in 1..TagLength : t[i] = t[1]}

\* what one call of make_copy draws (second, uuid4, tag)
Draws == [ts : TimeSample, uuid : UuidSample, tag : TagSample]

\* the draws of a batch: one draw and those differing from it in one component
BatchDraws ==
    LET d0 == CHOOSE d \in Draws : TRUE
    IN  {d \in Draws :
            Cardinality({f \in {"ts", "uuid", "tag"} : d[f] # d0[f]}) <= 1}

NoProc == [running |-> FALSE, sender |-> <<>>, dest |-> <<>>, input |-> <<>>]

Init ==
    /\ pc = "args"
    /\ destinations = <<>>
    /\ raw = <<>>
    /\ envelope_sender = <<>>
    /\ errors = <<>>
    /\ idx = 1
    /\ proc = NoProc
    /\ abandoned = <<>>
    /\ stderr = <<>>
    /\ exit_code = <<>>
    /\ attempts = <<>>
    /\ copies = <<>>

\* sys.exit(status) at the place `at`; an uncaught exception ends the
\* interpreter the same way, with status 1
Exit(at, status) ==
    /\ pc' = at
    /\ exit_code' = <<status>>

\* if not destinations / if not raw
NoDestinations(dests) == dests = <<>>
NoData(data) == data = <<>>

\* for dest in destinations: the loop moves to the next entry
NextDest == idx' = idx + 1

\* mutant: the exit status ignores the errors
ExitStatusAlwaysZero(errs) == 0

\* sys.exit(1) if errors else sys.exit(0)
ExitStatus(errs) == IF errs # <<>> THEN 1 ELSE 0

\* if len(sys.argv) < 2 ... if not destinations
ParseArgs ==
    /\ pc = "args"
    /\ \E argv \in ArgvSample :
         IF Len(argv) < 1
         THEN /\ stderr' = Append(stderr, <<"Usage: ", "prog", " <addr1,addr2,...>">>)
              /\ Exit("exit_usage", 1)
              /\ UNCHANGED destinations
         ELSE LET dests == ParseDestinations(argv[1])
              IN  IF NoDestinations(dests)
                  THEN /\ stderr' = Append(stderr,
                              <<"Error: no destination addresses provided.">>)
                       /\ Exit("exit_nodest", 1)
                       /\ UNCHANGED destinations
                  ELSE /\ destinations' = dests
                       /\ pc' = "stdin"
                       /\ UNCHANGED <<stderr, exit_code>>
    /\ UNCHANGED <<raw, envelope_sender, errors, idx, proc, abandoned, attempts,
                   copies>>

\* raw = sys.stdin.buffer.read(); if not raw
ReadStdin ==
    /\ pc = "stdin"
    /\ \E data \in StdinSample :
         /\ raw' = data
         /\ IF NoData(data)
            THEN /\ stderr' = Append(stderr, <<"Error: no email data on stdin.">>)
                 /\ Exit("exit_nostdin", 1)
            ELSE /\ pc' = "parse"
                 /\ UNCHANGED <<stderr, exit_code>>
    /\ UNCHANGED <<destinations, envelope_sender, errors, idx, proc, abandoned,
                   attempts, copies>>

\* original = message_from_bytes(raw); envelope_sender = parseaddr(...)[1];
\* errors = [].  parseaddr raises TypeError on a Header object: the exception
\* is not caught, the interpreter prints the traceback and exits with 1.
ParseOriginal ==
    /\ pc = "parse"
    /\ LET original == message_from_bytes(raw)
           from == Get(original, "From", <<>>)
       IN  IF from.hdr
           THEN /\ stderr' = Append(stderr, <<"Traceback", "TypeError">>)
                /\ Exit("exit_traceback", 1)
                /\ UNCHANGED <<envelope_sender, errors>>
           ELSE /\ envelope_sender' = AddrSpec(from.v)
                /\ errors' = <<>>
                /\ pc' = "loop"
                /\ UNCHANGED <<stderr, exit_code>>
    /\ UNCHANGED <<destinations, raw, idx, proc, abandoned, attempts, copies>>

\* str(exc) of an exception raised inside make_copy, of the OSError of
\* subprocess.Popen, and of the HeaderParseError of msg.as_bytes()
TransformError == <<"make_copy failed">>
SpawnError == <<"[Errno 2] No such file or directory: '/usr/sbin/sendmail'">>
SerializeError == <<"header value appears to contain an embedded header">>

\* mutant: the destination left out of the recorded error
RecordErrorCauseOnly(dest, exc) == errors' = Append(errors, exc)

\* errors.append(f"{dest}: {exc}")
RecordError(dest, exc) == errors' = Append(errors, dest \o <<": ">> \o exc)

\* One loop iteration up to the start of sendmail: make_copy, then in
\* send_copy Popen, then msg.as_bytes() for communicate.  Each can raise; the
\* except clause records it and the loop goes on.  When as_bytes raises,
\* sendmail has already been started and nothing waits for it.
StartAttempt ==
    /\ pc = "loop"
    /\ idx <= Len(destinations)
    /\ LET dest == destinations[idx]
       IN  \/ \* make_copy raises
              /\ RecordError(dest, TransformError)
              /\ attempts' = Append(attempts,
                    [dest |-> dest, status |-> "raised", sender |-> <<>>,
                     cause |-> TransformError])
              /\ NextDest
              /\ UNCHANGED <<pc, proc, abandoned, copies>>
           \/ \E d \in BatchDraws :
                LET copy == make_copy(raw, dest, d.ts, d.uuid, d.tag)
                IN  /\ copies' = Append(copies,
                          [dest |-> dest, msg |-> copy, ts |-> d.ts,
                           uuid |-> d.uuid, tag |-> d.tag])
                    /\ \/ \* Popen raises OSError
                          /\ RecordError(dest, SpawnError)
                          /\ attempts' = Append(attempts,
                                [dest |-> dest, status |-> "raised",
                                 sender |-> <<>>, cause |-> SpawnError])
                          /\ NextDest
                          /\ UNCHANGED <<pc, proc, abandoned>>
                       \/ \* sendmail started, msg.as_bytes() raises
                          /\ ~CanSerialize(copy)
                          /\ abandoned' = Append(abandoned,
                                [attempt |-> idx, sender |-> envelope_sender,
                                 dest |-> dest])
                          /\ RecordError(dest, SerializeError)
                          /\ attempts' = Append(attempts,
                                [dest |-> dest, status |-> "abandoned",
                                 sender |-> envelope_sender,
                                 cause |-> SerializeError])
                          /\ NextDest
                          /\ UNCHANGED <<pc, proc>>
                       \/ \* sendmail started, the copy written to its stdin
                          /\ CanSerialize(copy)
                          /\ proc' = [running |-> TRUE,
                                      sender |-> envelope_sender,
                                      dest |-> dest, input |-> as_bytes(copy)]
                          /\ attempts' = Append(attempts,
                                [dest |-> dest, status |-> "running",
                                 sender |-> envelope_sender, cause |-> <<>>])
                          /\ pc' = "wait"
                          /\ UNCHANGED <<errors, idx, abandoned>>
    /\ UNCHANGED <<destinations, raw, envelope_sender, stderr, exit_code>>

\* the RuntimeError message of send_copy
SendmailFailed(destination, returncode, diag) ==
    <<"sendmail failed for ">> \o destination \o <<" (exit ">>
    \o <<ToString(returncode)>> \o <<"): ">> \o Strip(diag)

\* proc.communicate() returns: the process has ended and its output is read.
FinishAttempt ==
    /\ pc = "wait"
    /\ \E returncode \in ExitSample, diag \in DiagSample :
         IF returncode # 0
         THEN /\ RecordError(proc.dest,
                             SendmailFailed(proc.dest, returncode, diag))
              /\ attempts' = [attempts EXCEPT
                    ![Len(attempts)].status = "failed",
                    ![Len(attempts)].cause =
                        SendmailFailed(proc.dest, returncode, diag)]
         ELSE /\ attempts' = [attempts EXCEPT ![Len(attempts)].status = "ok"]
              /\ UNCHANGED errors
    /\ proc' = NoProc
    /\ NextDest
    /\ pc' = "loop"
    /\ UNCHANGED <<destinations, raw, envelope_sender, abandoned, stderr,
                   exit_code, copies>>

\* A sendmail nobody waits for ends by itself at some time or other (at the
\* latest when the exit of the program closes its stdin).
AbandonedExits ==
    /\ ~(exit_code # <<>>)
    /\ abandoned # <<>>
    /\ \E k \in 1..Len(abandoned) :
         abandoned' = [i \in 1..(Len(abandoned) - 1) |->
                         IF i < k THEN abandoned[i] ELSE abandoned[i + 1]]
    /\ UNCHANGED <<pc, destinations, raw, envelope_sender, errors, idx, proc,
                   stderr, exit_code, attempts, copies>>

\* if errors: print each, sys.exit(1); sys.exit(0)
Report ==
    /\ pc = "loop"
    /\ idx > Len(destinations)
    /\ stderr' = stderr \o [i \in 1..Len(errors) |-> <<"Error: ">> \o errors[i]]
    /\ Exit("exit_report", ExitStatus(errors))
    /\ UNCHANGED <<destinations, raw, envelope_sender, errors, idx, proc,
                   abandoned, attempts, copies>>

Next == ParseArgs \/ ReadStdin \/ ParseOriginal \/ StartAttempt
        \/ FinishAttempt \/ AbandonedExits \/ Report

Spec == Init /\ [][Next]_vars

(***************************************************************************)
(* copies_for(raw_bytes, addresses) of the unit tests: make_copy applied   *)
(* to a message once per address, with nothing else of main() around it.   *)
(***************************************************************************)
HeaderLineSample ==
    {HdrLine("To", <<"t">>), HdrLine("TO", <<"u">>),
     HdrLine("Subject", <<"S">>), HdrLine("Subject", <<"c", HiByte>>),
     HdrLine("X-Kayako-Dup", <<"7">>),
     HdrLine("In-Reply-To", <<"<", "t", ">">>),
     HdrLine("References", <<"<", "r", ">">>),
     HdrLine("Message-Id", <<"<", "o", ">">>),
     HdrLine("From", <<"N", " ", "<", "b", ">">>),
     HdrLine("Date", <<"d">>),
     HdrLine("Content-Type", MultipartType)}

BodySample ==
    {<<>>,
     <<BlankLine, TextLine(<<"x">>)>>,
     \* no separator: the body starts at the first line that is no header
     <<TextLine(<<"x">>), HdrLine("To", <<"z">>)>>,
     \* preamble, three parts (the last with headers of its own), epilogue
     <<BlankLine, TextLine(<<"pre">>),
       BoundaryLine, BlankLine, TextLine(<<"p1">>),
       BoundaryLine, BlankLine, TextLine(<<"p2">>),
       BoundaryLine, HdrLine("Subject", <<"in">>), HdrLine("To", <<"z">>),
       BlankLine, TextLine(<<"p3">>),
       CloseLine, TextLine(<<"epi">>)>>}

FixtureSample ==
    {h \o b : h \in SeqsUpTo(HeaderLineSample, MaxHeaders), b \in BodySample}

AddressSample == {<<"a">>, <<"b", "b">>}

InitCopies ==
    /\ pc = "copies_for"
    /\ raw \in FixtureSample
    /\ destinations \in {<<a>> : a \in AddressSample}
    /\ envelope_sender = <<>>
    /\ errors = <<>>
    /\ idx = 1
    /\ proc = NoProc
    /\ abandoned = <<>>
    /\ stderr = <<>>
    /\ exit_code = <<>>
    /\ attempts = <<>>
    /\ copies = <<>>

\* [kd.make_copy(raw_bytes, addr) for addr in addresses], one element
CopiesFor ==
    /\ pc = "copies_for"
    /\ idx <= Len(destinations)
    /\ \E d \in Draws :
         copies' = Append(copies,
            [dest |-> destinations[idx],
             msg |-> make_copy(raw, destinations[idx], d.ts, d.uuid, d.tag),
             ts |-> d.ts, uuid |-> d.uuid, tag |-> d.tag])
    /\ NextDest
    /\ UNCHANGED <<pc, destinations, raw, envelope_sender, errors, proc,
                   abandoned, stderr, exit_code, attempts>>

NextCopies == CopiesFor

SpecCopies == InitCopies /\ [][NextCopies]_vars

(***************************************************************************)
(* Vocabulary of the properties.                                           *)
(***************************************************************************)
HeaderValues(headers, name) ==
    LET hs == SelectSeq(headers, LAMBDA h : Lower(h[1]) = Lower(name))
    IN  [i \in 1..Len(hs) |-> hs[i][2]]

RewrittenNames ==
    {"to", "message-id", "subject", "x-kayako-dup", "in-reply-to", "references"}

OtherHeaders(headers) ==
    SelectSeq(headers, LAMBDA h : Lower(h[1]) \notin RewrittenNames)

\* the value of the original's first Subject header, empty without one
OriginalSubject == Get([headers |-> HeaderBlock(raw)], "Subject", <<>>).v

Succeeded(a) == a.status = "ok"
Failed(a) == a.status \in {"failed", "raised", "abandoned"}
Spawned(a) == a.status \in {"running", "failed", "ok", "abandoned"}

InputExits == {"exit_usage", "exit_nodest", "exit_nostdin"}
ValidInput == destinations # <<>> /\ raw # <<>>
Exited == exit_code # <<>>

\* the attempts made are the destinations in input order, one per entry,
\* none skipped or retried, and when the loop has ended every entry has been
\* attempted
AttemptsAreDestinationsInOrder ==
    /\ Len(attempts) <= Len(destinations)
    /\ \A i \in 1..Len(attempts) : attempts[i].dest = destinations[i]
    /\ pc = "loop" => Len(attempts) = idx - 1
    /\ pc = "wait" => Len(attempts) = idx
    /\ pc = "exit_report" => Len(attempts) = Len(destinations)

\* a sendmail that has not ended belongs to the attempt started last
OneAttemptAtATime ==
    /\ proc.running => pc = "wait" /\ attempts[Len(attempts)].status = "running"
    /\ \A i \in 1..Len(attempts) :
         attempts[i].status = "running" => i = Len(attempts) /\ proc.running
    /\ \A k \in 1..Len(abandoned) : abandoned[k].attempt = Len(attempts)
    /\ proc.running => abandoned = <<>>

\* C1: the attempts are the destinations in input order, each entry once,
\* and an attempt starts only after the previous one has completed.
C1_AttemptsInOrderOneAtATime ==
    AttemptsAreDestinationsInOrder /\ OneAttemptAtATime

\* C2: with valid input the exit status is 0 exactly when every destination
\* was dispatched successfully, and 1 when some dispatch failed.
C2_ExitStatus ==
    (Exited /\ ValidInput) =>
        /\ exit_code = <<0>> <=>
              /\ Len(attempts) = Len(destinations)
              /\ \A i \in 1..Len(attempts) : Succeeded(attempts[i])
        /\ (\E i \in 1..Len(attempts) : Failed(attempts[i])) => exit_code = <<1>>

C2_Witness ==
    /\ pc = "exit_report"
    /\ exit_code = <<1>>
    /\ \E i, j \in 1..Len(attempts) :
         Succeeded(attempts[i]) /\ Failed(attempts[j])

\* C3: nothing is written while destinations remain; at the end there is one
\* line "Error: <destination>: <cause>" per failed attempt, in attempt order,
\* and none for a successful one.
C3_ErrorReport ==
    LET failed == SelectSeq(attempts, Failed)
    IN  /\ pc \in {"loop", "wait"} => stderr = <<>>
        /\ pc = "exit_report" =>
             stderr = [k \in 1..Len(failed) |->
                         <<"Error: ">> \o failed[k].dest \o <<": ">>
                         \o failed[k].cause]

C3_Witness ==
    /\ pc = "exit_report"
    /\ Len(attempts) = 2
    /\ attempts[1].status = "failed"
    /\ attempts[2].status = "abandoned"
    /\ attempts[1].dest # attempts[2].dest
    /\ Len(stderr) = 2

\* C4: a run that ends with an input error exits 1 with one message and has
\* made no copy and started no transport; whenever a copy or an attempt
\* exists the destination list is non-empty, holds only trimmed non-empty
\* entries, and stdin was not empty.
C4_InputErrorsBeforeAnyWork ==
    /\ pc \in InputExits =>
          /\ exit_code = <<1>>
          /\ Len(stderr) = 1
          /\ copies = <<>> /\ attempts = <<>>
          /\ ~proc.running /\ abandoned = <<>>
    /\ (copies # <<>> \/ attempts # <<>> \/ pc \in {"parse", "loop", "wait"}) =>
          /\ ValidInput
          /\ \A i \in 1..Len(destinations) :
               destinations[i] # <<>> /\ Strip(destinations[i]) = destinations[i]

C4_Witness ==
    /\ pc = "exit_nostdin"
    /\ Len(destinations) = 2
    /\ exit_code = <<1>>

\* C5: every copy has X-Kayako-Dup = "1" once, no In-Reply-To, no References
\* and To = its destination once, whatever the original carried.
C5_CopyHeaders ==
    \A i \in 1..Len(copies) :
        LET c == copies[i] IN
        /\ HeaderValues(c.msg.headers, "X-Kayako-Dup") = << <<"1">> >>
        /\ HeaderValues(c.msg.headers, "In-Reply-To") = <<>>
        /\ HeaderValues(c.msg.headers, "References") = <<>>
        /\ HeaderValues(c.msg.headers, "To") = <<c.dest>>

C5_Witness ==
    /\ copies # <<>>
    /\ Len(HeaderValues(HeaderBlock(raw), "To")) = 2

\* C6: every header outside the six rewritten names keeps its value and its
\* place among the others, and the body (payload, parts, preamble, epilogue)
\* is that of the original.
C6_RestUnchanged ==
    \A i \in 1..Len(copies) :
        LET c == copies[i].msg
            o == message_from_bytes(raw)
        IN  /\ OtherHeaders(c.headers) = OtherHeaders(HeaderBlock(raw))
            /\ c.multipart = o.multipart
            /\ c.payload = BodyLines(raw) \/ c.multipart
            /\ Len(c.parts) = Len(o.parts)
            /\ \A k \in 1..Len(c.parts) : c.parts[k] = o.parts[k]
            /\ c.preamble = o.preamble /\ c.epilogue = o.epilogue

C6_Witness ==
    /\ copies # <<>>
    /\ copies[1].msg.multipart
    /\ Len(copies[1].msg.parts) = 3
    /\ HeaderValues(HeaderBlock(raw), "To") # <<>>
    /\ HeaderValues(copies[1].msg.headers, "Content-Type") # <<>>

MessageIdOf(c) == HeaderValues(c.msg.headers, "Message-ID")
SubjectOf(c) == HeaderValues(c.msg.headers, "Subject")
\* what generate_message_id drew for a copy: the second and the token
IdDraw(c) == <<c.ts, SubSeq(c.uuid, 1, UidLen)>>

C9_SubjectIsOriginalPlusTag ==
    \A i \in 1..Len(copies) :
        LET c == copies[i] IN
        /\ Len(c.tag) = TagLength
        /\ \A k \in 1..Len(c.tag) : c.tag[k] \in AlnumSample
        /\ SubjectOf(c) = <<OriginalSubject \o <<" [">> \o c.tag \o <<"]">>>>

\* C10: while the loop runs raw and envelope_sender do not change; every
\* sendmail started got the address of the original's first From header as
\* sender; every copy has one To, one Message-ID and one Subject, the
\* original's with the one tag drawn for it, and the original's other headers.
C10_SenderAndCopies ==
    LET original == message_from_bytes(raw)
        sender == AddrSpec(Get(original, "From", <<>>).v)
    IN  /\ \A i \in 1..Len(attempts) :
              Spawned(attempts[i]) => attempts[i].sender = sender
        /\ proc.running => proc.sender = sender
        /\ \A i \in 1..Len(abandoned) : abandoned[i].sender = sender
        /\ \A i \in 1..Len(copies) :
              LET c == copies[i] IN
              /\ HeaderValues(c.msg.headers, "To") = <<c.dest>>
              /\ Len(MessageIdOf(c)) = 1
              /\ SubjectOf(c) = <<Str(Get(original, "Subject", <<>>))
                                  \o <<" [">> \o c.tag \o <<"]">>>>
              /\ OtherHeaders(c.msg.headers) = OtherHeaders(original.headers)

C10_LoopStep ==
    pc \in {"loop", "wait"} => (raw' = raw /\ envelope_sender' = envelope_sender)

\* C10: the state part above always holds, and no step taken inside the loop
\* changes raw or envelope_sender.
C10_LoopKeepsRawAndSender == []C10_SenderAndCopies /\ [][C10_LoopStep]_vars

C10_Witness ==
    /\ pc = "exit_report"
    /\ Len(copies) = 2
    /\ copies[1].dest # copies[2].dest
    /\ \A i \in 1..2 : Spawned(attempts[i]) /\ attempts[i].sender = <<"b">>
    /\ Len(HeaderValues(HeaderBlock(raw), "From")) = 2

====
